---------------------------- MODULE Spec2Model ----------------------------
(***************************************************************************)
(* Model of the two locally written components of the notebooks:           *)
(*   - the TSP ansatz construction cell of                                  *)
(*     Solutions/Solution_1-QuantumRouteOptimisation.ipynb                  *)
(*     (base_circuit, W_circuit, the controlled-swap loops, measure_all);   *)
(*   - the variational loop (cost_func / cost_fn called back by             *)
(*     scipy.optimize.minimize inside a runtime Session) of the TSP         *)
(*     notebook and of the Ising notebook.                                  *)
(* The quantum SDK, the estimator and the minimizer are external: the       *)
(* estimator's answer and the minimizer's choices are nondeterministic.     *)
(***************************************************************************)
EXTENDS Integers, Sequences, FiniteSets, TLC

(***************************************************************************)
(* Bounds of the model.                                                    *)
(***************************************************************************)
\* largest city count n tried
MaxN == 6
\* city counts down to -MaxNeg are tried as well
MaxNeg == 2
\* iteration budget of the TSP run (options={'maxiter': 200}), scaled down
MaxIterTsp == 3
\* iteration budget of one Ising run (options={'maxiter': 100}), scaled down
\* (the sweep multiplies it by the number of field values)
MaxIterIsing == 1
\* number of field values, len(b_list) (np.linspace(0, 4, 10)), scaled down
NumFields == 2

VARIABLES
    notebook,     \* which notebook runs: "tsp" or "ising"
    \* ---- ansatz construction cell (TSP notebook) ----
    n,            \* city count
    num_qubits,   \* num_qubits = n ** 2
    phi,          \* length of ParameterVector('phi', num_qubits)
    gates,        \* qc.data: the instructions appended so far, in order
    bpc,          \* position in the cell: "base","W","cswap","measure","built",
                  \* "ready" (initial point drawn), "error" (a call raised),
                  \* "library" (Ising notebook: no construction cell)
    i, k, v, p,   \* loop variables of the cell (0 while not yet bound)
    num_params,   \* num_params = ansatz.num_parameters (0 while not yet bound)
    x0,           \* length of the initial point x0 (0 while not yet bound)
    \* ---- variational loop (both notebooks) ----
    cost_history_dict, \* the global trace: prev_vector, iters, cost_history
    session,      \* the runtime Session of the minimization: "none","open","closed"
    dpc,          \* "idle","session","running","done","failed"
    b,            \* loop variable of `for b in range(len(b_list))`
    initial_point, \* the initial point handed to minimize ("None" while unbound)
    res,          \* the minimizer's result: x and fun ("None" while unbound)
    \* ---- the external minimizer and estimator, as the loop sees them ----
    evals,        \* the (params, energy) pairs the running minimize call has seen
    calls,        \* cost function calls made by the running minimize call
    params,       \* argument of the latest cost function call
    outcome,      \* what the estimator did on the latest request: an energy or "raise"
    returned,     \* what the latest call handed back: an energy, or "raised"
    last_returned_params, \* argument of the latest call of this run that returned
    started_empty, \* whether the trace was empty when the running minimize call began
    exact,        \* whether the estimator is a noiseless exact one
    exact_value,  \* the value an exact estimator has, per params, for the run's observable
    \* ---- the cells around the loop ----
    energy_levels, \* Ising: the classical benchmark's list, one entry per field value
    checked,      \* TSP: the solutions qubo.is_feasible has been applied to
    quantum_solution, \* TSP: the sampled solution and the point it was sampled at
    reported,     \* TSP: whether the sampled solution has been costed, printed and drawn
    \* ---- the feasibility predicate on its own ----
    fx,           \* a candidate solution: one bit per (city, position)
    feasible,     \* the predicate's answer for fx ("None" while not asked)
    \* ---- run configuration and transpilation ----
    run_target,   \* the run flag: 'simulator', 'least_busy' or a backend name
    backend,      \* the selected backend: its class and name ("None" while unbound)
    isa_path,     \* how isa_ansatz was made: "pass_manager" or "transpile"
    spc,          \* position in these cells: "select", "transpile", "ready"
    \* ---- the Ising sweep ----
    H,            \* the Hamiltonian matrix last built (all zero while unbound)
    session_id,   \* how many Session objects have been created
    reset_run,    \* whether the two reset cells ran before the sweep cell
    ground_state_energies_simulator,
    ground_state_energies_hardware

bvars == <<n, num_qubits, phi, gates, bpc, i, k, v, p, num_params, x0>>

\* the estimator in use
evars == <<exact, exact_value>>

\* the cells before and after the loop
cvars == <<energy_levels, checked, quantum_solution, reported>>

\* the feasibility predicate's argument and answer
fvars == <<fx, feasible>>

\* run configuration and transpilation
svars == <<run_target, backend, isa_path, spc>>

\* the result lists of the Ising sweep
gvars == <<reset_run, ground_state_energies_simulator, ground_state_energies_hardware>>

others == <<evars, cvars, fvars, svars, H, session_id, gvars>>

dvars == <<cost_history_dict, session, dpc, b, initial_point, res,
           evals, calls, params, outcome, returned, last_returned_params,
           started_empty, others>>

vars == <<notebook, bvars, dvars>>

(***************************************************************************)
(* Python indexing of a sequence of length len by an int idx: a negative   *)
(* index counts from the end, anything outside -len..len-1 raises.         *)
(***************************************************************************)
PyIndexOk(idx, len) == -len <= idx /\ idx < len

PyIndex(idx, len) == IF idx < 0 THEN idx + len ELSE idx

(***************************************************************************)
(* One requested instruction, with the indices as the code writes them.    *)
(* params is <<>> or <<index into phi>>; sign is the sign of the angle.    *)
(***************************************************************************)
Op(name, qs, ps, sg) == [op |-> name, qubits |-> qs, params |-> ps, sign |-> sg]

\* QuantumCircuit.<gate>(...): the call raises when a qubit index is out of
\* range, when a ParameterVector index is out of range, or when two qubit
\* arguments name the same qubit; otherwise it appends the instruction.
AppendOk(req, nq, np) ==
    /\ \A a \in 1..Len(req.qubits) : PyIndexOk(req.qubits[a], nq)
    /\ \A a \in 1..Len(req.params) : PyIndexOk(req.params[a], np)
    /\ \A a, c \in 1..Len(req.qubits) :
          a # c => PyIndex(req.qubits[a], nq) # PyIndex(req.qubits[c], nq)

Resolved(req, nq, np) ==
    Op(req.op,
       [a \in 1..Len(req.qubits) |-> PyIndex(req.qubits[a], nq)],
       [a \in 1..Len(req.params) |-> PyIndex(req.params[a], np)],
       req.sign)

\* The calls of one function body, in order: each either appends or raises,
\* and a raise ends the body (and the cell) with what was appended so far.
RECURSIVE EmitAll(_, _, _, _)
EmitAll(gs, reqs, nq, np) ==
    IF reqs = <<>> THEN [gates |-> gs, failed |-> FALSE]
    ELSE IF ~AppendOk(Head(reqs), nq, np) THEN [gates |-> gs, failed |-> TRUE]
    ELSE EmitAll(Append(gs, Resolved(Head(reqs), nq, np)), Tail(reqs), nq, np)

\* variant: the rotations of the base block take theta[0]
base_circuit_zero(nn) ==
    << Op("x",  <<0>>,         <<>>,  0),
       Op("ry", <<1>>,         <<0>>, 1),
       Op("cz", <<0, 1>>,      <<>>,  0),
       Op("ry", <<1>>,         <<0>>, -1),
       Op("cx", <<1, 0>>,      <<>>,  0),
       Op("cx", <<1, nn>>,     <<>>,  0),
       Op("cx", <<0, nn + 1>>, <<>>,  0) >>

\* variant: the last two CNOTs aimed at the last two qubits of the register
base_circuit_last(nn) ==
    << Op("x",  <<0>>,              <<>>,  0),
       Op("ry", <<1>>,              <<1>>, 1),
       Op("cz", <<0, 1>>,           <<>>,  0),
       Op("ry", <<1>>,              <<1>>, -1),
       Op("cx", <<1, 0>>,           <<>>,  0),
       Op("cx", <<1, nn * nn - 2>>, <<>>,  0),
       Op("cx", <<0, nn * nn - 1>>, <<>>,  0) >>

\* def base_circuit(QC, n, theta)
base_circuit(nn) ==
    << Op("x",  <<0>>,         <<>>,  0),
       Op("ry", <<1>>,         <<1>>, 1),
       Op("cz", <<0, 1>>,      <<>>,  0),
       Op("ry", <<1>>,         <<1>>, -1),
       Op("cx", <<1, 0>>,      <<>>,  0),
       Op("cx", <<1, nn>>,     <<>>,  0),
       Op("cx", <<0, nn + 1>>, <<>>,  0) >>

\* variant: the rotations of qubit j take theta[j] instead of theta[j - 1]
W_rotations_next(sz, q1n) ==
    [m \in 1..(3 * (sz - 1)) |->
        LET j == q1n + 1 + ((m - 1) \div 3)
            r == (m - 1) % 3
        IN  IF r = 0 THEN Op("ry", <<j>>, <<j>>, 1)
            ELSE IF r = 1 THEN Op("cz", <<j - 1, j>>, <<>>, 0)
            ELSE Op("ry", <<j>>, <<j>>, -1)]

\* def W_circuit(QC, n, q1n, theta), called with n = i (the block size)
W_rotations(sz, q1n) ==
    [m \in 1..(3 * (sz - 1)) |->
        LET j == q1n + 1 + ((m - 1) \div 3)
            r == (m - 1) % 3
        IN  IF r = 0 THEN Op("ry", <<j>>, <<j - 1>>, 1)
            ELSE IF r = 1 THEN Op("cz", <<j - 1, j>>, <<>>, 0)
            ELSE Op("ry", <<j>>, <<j - 1>>, -1)]

\* variant: the CNOTs of the chain run from j - 1 to j
W_chain_reversed(sz, q1n) ==
    [m \in 1..(sz - 1) |-> Op("cx", <<q1n + m - 1, q1n + m>>, <<>>, 0)]

W_chain(sz, q1n) ==
    [m \in 1..(sz - 1) |-> Op("cx", <<q1n + m, q1n + m - 1>>, <<>>, 0)]

W_circuit(sz, q1n) ==
    <<Op("x", <<q1n>>, <<>>, 0)>> \o W_rotations(sz, q1n) \o W_chain(sz, q1n)

\* variant: the control taken from row k-1 (n*(k-2) instead of n*(k-1))
cswap_row(nn, kk, vv, pp) ==
    Op("cswap",
       << nn * (kk - 2) + vv - 1,
          nn * (pp - 1) + nn - (nn - kk) - 1,
          nn * (pp - 1) + vv - 1 >>,
       <<>>, 0)

\* variant: the control taken from row k+1 (n*k instead of n*(k-1))
cswap_off(nn, kk, vv, pp) ==
    Op("cswap",
       << nn * kk + vv - 1,
          nn * (pp - 1) + nn - (nn - kk) - 1,
          nn * (pp - 1) + vv - 1 >>,
       <<>>, 0)

\* qc.cswap(n*(k-1)+v-1, n*(p-1)+n-(n-k)-1, n*(p-1)+v-1)
cswap(nn, kk, vv, pp) ==
    Op("cswap",
       << nn * (kk - 1) + vv - 1,
          nn * (pp - 1) + nn - (nn - kk) - 1,
          nn * (pp - 1) + vv - 1 >>,
       <<>>, 0)

\* variant: the last qubit of the register is left unmeasured
measure_all_short(nq) == [m \in 1..(nq - 1) |-> Op("measure", <<m - 1>>, <<>>, 0)]

\* qc.measure_all(): one measurement per qubit of the register, in order
\* (the barrier directive the SDK puts in front of them acts on no qubit
\* state and is not an instruction of the list modelled here)
measure_all(nq) == [m \in 1..nq |-> Op("measure", <<m - 1>>, <<>>, 0)]

\* ansatz.num_parameters: the distinct parameters attached to instructions
Parameters(gs) ==
    UNION { {gs[a].params[c] : c \in 1..Len(gs[a].params)} : a \in 1..Len(gs) }

(***************************************************************************)
(* The variational loop: values.                                           *)
(***************************************************************************)
\* candidate parameter vectors the minimizer may pass
Vectors == {"x_a", "x_b"}

\* energies the estimator may report: a finite one and a non-finite one
Finite == {"-1.0"}
NonFinite == {"nan"}
Energies == Finite \cup NonFinite

\* cost_history_dict = {"prev_vector": None, "iters": 0, "cost_history": []}
EmptyTrace == [prev_vector |-> "None", iters |-> 0, cost_history |-> <<>>]

NoResult == [x |-> "None", fun |-> "None"]

\* options={'maxiter': ...} of the notebook's minimize call
maxiter == IF notebook = "tsp" THEN MaxIterTsp ELSE MaxIterIsing

\* variant: the new cost is put in front of the sequence
Record_prepend(trace, prm, energy) ==
    [prev_vector  |-> prm,
     iters        |-> trace.iters + 1,
     cost_history |-> <<energy>> \o trace.cost_history]

\* variant: prev_vector is not updated
Record_stale(trace, prm, energy) ==
    [prev_vector  |-> trace.prev_vector,
     iters        |-> trace.iters + 1,
     cost_history |-> Append(trace.cost_history, energy)]

\* the body of cost_func / cost_fn after the estimator has answered `energy`
Record(trace, prm, energy) ==
    [prev_vector  |-> prm,
     iters        |-> trace.iters + 1,
     cost_history |-> Append(trace.cost_history, energy)]

(***************************************************************************)
(* Initial state: the notebook is chosen, the cells above the ansatz cell  *)
(* (TSP) or above the session cell (Ising) have run.                       *)
(***************************************************************************)
BInit ==
    /\ n \in (-MaxNeg)..MaxN
    /\ num_qubits = n * n
    /\ phi = n * n
    /\ gates = <<>>
    /\ bpc = "base"
    /\ i = 0 /\ k = 0 /\ v = 0 /\ p = 0
    /\ num_params = 0
    /\ x0 = 0

\* the Ising notebook takes its 2-qubit ansatz from the circuit library:
\* the construction cell does not exist there
BNone ==
    /\ n = 0
    /\ num_qubits = 2
    /\ phi = 0
    /\ gates = <<>>
    /\ bpc = "library"
    /\ i = 0 /\ k = 0 /\ v = 0 /\ p = 0
    /\ num_params = 0
    /\ x0 = 0

DInit ==
    /\ cost_history_dict = EmptyTrace
    /\ session = "none"
    /\ dpc = "idle"
    /\ b = 0
    /\ initial_point = "None"
    /\ res = NoResult
    /\ evals = {}
    /\ calls = 0
    /\ params = "None"
    /\ outcome = "None"
    /\ returned = "None"
    /\ last_returned_params = "None"
    /\ started_empty = TRUE

\* no observable bound to the estimator yet
NoValue == [prm \in Vectors |-> "None"]

\* quantum_solution is unbound
NoSolution == [interpret |-> "None", at |-> "None", session |-> 0]

\* the estimator is an exact one or a sampling one; no observable is bound yet
EInit ==
    /\ exact \in BOOLEAN
    /\ exact_value = NoValue

\* TSP: the classical solution x has been put to qubo.is_feasible(x)
CInit ==
    /\ energy_levels = <<>>
    /\ checked = IF notebook = "tsp" THEN {"x"} ELSE {}
    /\ quantum_solution = NoSolution
    /\ reported = FALSE

FNone ==
    /\ fx = <<>>
    /\ feasible = "None"

\* backend is unbound
NoBackend == [class |-> "None", name |-> "None"]

\* run_target = 'simulator', as the notebooks are written
SInit ==
    /\ run_target = "simulator"
    /\ backend = NoBackend
    /\ isa_path = "None"
    /\ spc = "select"

\* H is unbound
NoH == [rc \in (0..3) \X (0..3) |-> 0]

\* no Session yet; the reset cells have run: both result lists are empty
GInit ==
    /\ H = NoH
    /\ session_id = 0
    /\ reset_run = TRUE
    /\ ground_state_energies_simulator = <<>>
    /\ ground_state_energies_hardware = <<>>

Init ==
    /\ notebook \in {"tsp", "ising"}
    /\ IF notebook = "tsp" THEN BInit ELSE BNone
    /\ DInit
    /\ EInit
    /\ CInit
    /\ FNone
    /\ SInit
    /\ GInit

(***************************************************************************)
(* The ansatz construction cell.                                           *)
(***************************************************************************)
\* base_circuit(qc, n, phi)
BaseCircuit ==
    /\ bpc = "base"
    /\ LET r == EmitAll(gates, base_circuit(n), num_qubits, phi)
       IN  /\ gates' = r.gates
           /\ IF r.failed THEN bpc' = "error" /\ UNCHANGED <<i, k, v, p>>
              ELSE IF 3 <= n THEN bpc' = "W" /\ i' = 3 /\ UNCHANGED <<k, v, p>>
              ELSE bpc' = "measure" /\ UNCHANGED <<i, k, v, p>>
    /\ UNCHANGED <<notebook, n, num_qubits, phi, num_params, x0, dvars>>

\* one pass of `for i in range(3, n + 1, 1): W_circuit(qc, i, n * (i - 1), phi)`;
\* after the last pass the cell is at the first controlled-swap (k = 3, v = p = 1)
WCircuit ==
    /\ bpc = "W"
    /\ LET r == EmitAll(gates, W_circuit(i, n * (i - 1)), num_qubits, phi)
       IN  /\ gates' = r.gates
           /\ IF r.failed THEN bpc' = "error" /\ UNCHANGED <<i, k, v, p>>
              ELSE IF i + 1 <= n THEN bpc' = "W" /\ i' = i + 1 /\ UNCHANGED <<k, v, p>>
              ELSE bpc' = "cswap" /\ k' = 3 /\ v' = 1 /\ p' = 1 /\ UNCHANGED i
    /\ UNCHANGED <<notebook, n, num_qubits, phi, num_params, x0, dvars>>

\* variant: the inner loops run over range(1, k - 1)
CSwap_short ==
    /\ bpc = "cswap"
    /\ LET r == EmitAll(gates, <<cswap(n, k, v, p)>>, num_qubits, phi)
       IN  /\ gates' = r.gates
           /\ IF r.failed THEN bpc' = "error" /\ UNCHANGED <<k, v, p>>
              ELSE IF p + 1 < k - 1 THEN bpc' = "cswap" /\ p' = p + 1 /\ UNCHANGED <<k, v>>
              ELSE IF v + 1 < k - 1 THEN bpc' = "cswap" /\ v' = v + 1 /\ p' = 1 /\ UNCHANGED k
              ELSE IF k + 1 <= n THEN bpc' = "cswap" /\ k' = k + 1 /\ v' = 1 /\ p' = 1
              ELSE bpc' = "measure" /\ UNCHANGED <<k, v, p>>
    /\ UNCHANGED <<notebook, n, num_qubits, phi, i, num_params, x0, dvars>>

\* variant: the two inner loops exchanged (p outside, v inside)
CSwap_exchanged ==
    /\ bpc = "cswap"
    /\ LET r == EmitAll(gates, <<cswap(n, k, v, p)>>, num_qubits, phi)
       IN  /\ gates' = r.gates
           /\ IF r.failed THEN bpc' = "error" /\ UNCHANGED <<k, v, p>>
              ELSE IF v + 1 < k THEN bpc' = "cswap" /\ v' = v + 1 /\ UNCHANGED <<k, p>>
              ELSE IF p + 1 < k THEN bpc' = "cswap" /\ p' = p + 1 /\ v' = 1 /\ UNCHANGED k
              ELSE IF k + 1 <= n THEN bpc' = "cswap" /\ k' = k + 1 /\ v' = 1 /\ p' = 1
              ELSE bpc' = "measure" /\ UNCHANGED <<k, v, p>>
    /\ UNCHANGED <<notebook, n, num_qubits, phi, i, num_params, x0, dvars>>

\* one pass of the innermost loop
\*   for k in range(3, n + 1): for v in range(1, k): for p in range(1, k): qc.cswap(...)
CSwap ==
    /\ bpc = "cswap"
    /\ LET r == EmitAll(gates, <<cswap(n, k, v, p)>>, num_qubits, phi)
       IN  /\ gates' = r.gates
           /\ IF r.failed THEN bpc' = "error" /\ UNCHANGED <<k, v, p>>
              ELSE IF p + 1 < k THEN bpc' = "cswap" /\ p' = p + 1 /\ UNCHANGED <<k, v>>
              ELSE IF v + 1 < k THEN bpc' = "cswap" /\ v' = v + 1 /\ p' = 1 /\ UNCHANGED k
              ELSE IF k + 1 <= n THEN bpc' = "cswap" /\ k' = k + 1 /\ v' = 1 /\ p' = 1
              ELSE bpc' = "measure" /\ UNCHANGED <<k, v, p>>
    /\ UNCHANGED <<notebook, n, num_qubits, phi, i, num_params, x0, dvars>>

\* qc.measure_all(); ansatz = qc
MeasureAll ==
    /\ bpc = "measure"
    /\ gates' = gates \o measure_all(num_qubits)
    /\ bpc' = "built"
    /\ UNCHANGED <<notebook, n, num_qubits, phi, i, k, v, p, num_params, x0, dvars>>

\* variant: the parameter count taken from the declared vector, len(phi)
InitialPoint_declared ==
    /\ bpc = "built"
    /\ spc = "ready"
    /\ num_params' = phi
    /\ x0' = phi
    /\ bpc' = "ready"
    /\ UNCHANGED <<notebook, n, num_qubits, phi, gates, i, k, v, p, dvars>>

\* num_params = ansatz.num_parameters; x0 = validate_initial_point(None, isa_ansatz)
InitialPoint ==
    /\ bpc = "built"
    /\ spc = "ready"
    /\ num_params' = Cardinality(Parameters(gates))
    /\ x0' = Cardinality(Parameters(gates))
    /\ bpc' = "ready"
    /\ UNCHANGED <<notebook, n, num_qubits, phi, gates, i, k, v, p, dvars>>

(***************************************************************************)
(* The cells before the loop.                                              *)
(***************************************************************************)
\* J = 1
J == 1

\* the 2x2 matrix of one Pauli letter, rows and columns 0..1
Pauli(letter) ==
    [rc \in (0..1) \X (0..1) |->
        IF letter = "I" THEN (IF rc[1] = rc[2] THEN 1 ELSE 0)
        ELSE IF letter = "X" THEN (IF rc[1] = rc[2] THEN 0 ELSE 1)
        ELSE IF rc[1] # rc[2] THEN 0
        ELSE IF rc[1] = 0 THEN 1 ELSE -1]

\* SparsePauliOp(label).to_matrix() for a two-letter label: the left letter
\* acts on the high bit of the basis index, the right letter on the low bit
SparsePauliOp(label) ==
    [rc \in (0..3) \X (0..3) |->
        Pauli(label[1])[<<rc[1] \div 2, rc[2] \div 2>>]
            * Pauli(label[2])[<<rc[1] % 2, rc[2] % 2>>]]

\* observables = [SparsePauliOp(label) for label in ["ZZ", "IX", "XI"]]
observables ==
    << SparsePauliOp(<<"Z", "Z">>), SparsePauliOp(<<"I", "X">>),
       SparsePauliOp(<<"X", "I">>) >>

\* def Hamiltonian(J, b, observables): -J*ZZ + b*(IX + XI), as a matrix
Hamiltonian(JJ, bb) ==
    [rc \in (0..3) \X (0..3) |->
        (0 - JJ) * observables[1][rc] + bb * (observables[2][rc] + observables[3][rc])]

IsDiagonal(M) == \A rc \in DOMAIN M : rc[1] # rc[2] => M[rc] = 0

\* linalg.eig(H.to_matrix())[0]: the eigenvalues of a diagonal matrix are its
\* diagonal entries, in order. The spectrum of a non-diagonal matrix of this
\* family is not a list of integers; it is not evaluated and stands as <<>>.
eig(M) == IF IsDiagonal(M) THEN [r \in 1..4 |-> M[<<r - 1, r - 1>>]] ELSE <<>>

\* variant: the levels sorted in descending order
sort_desc(levels) == SortSeq(levels, LAMBDA x, y : x > y)

\* np.sort(E_l): ascending
sort(levels) == SortSeq(levels, LAMBDA x, y : x < y)

\* backend names service.backends() lists
Hardware == {"ibm_sherbrooke", "ibm_brisbane"}

\* values of the run flag: simulator, least_busy, any hw printed above
RunTargets == {"simulator", "least_busy"} \cup Hardware

\* the run configuration cell:
\*   if run_target == 'simulator': backend = AerSimulator()
\*   elif run_target == 'least_busy':
\*       backend = service.least_busy(operational=True, simulator=False)
\*   else: backend = service.backend('ibm_sherbrooke')
\* TSP: the cell follows the construction cell.
SelectBackend ==
    /\ spc = "select"
    /\ notebook = "tsp" => bpc = "built"
    /\ IF run_target = "simulator"
       THEN backend' = [class |-> "AerSimulator", name |-> "aer_simulator"]
       ELSE IF run_target = "least_busy"
       THEN \E nm \in Hardware : backend' = [class |-> "IBMBackend", name |-> nm]
       ELSE backend' = [class |-> "IBMBackend", name |-> "ibm_sherbrooke"]
    /\ spc' = "transpile"
    /\ UNCHANGED <<notebook, bvars, cost_history_dict, session, dpc, b,
                   initial_point, res, evals, calls, params, outcome, returned,
                   last_returned_params, started_empty, evars, cvars, fvars,
                   run_target, isa_path, H, session_id, gvars>>

\* Python's == between a backend object and a str: neither class defines an
\* equality with the other, so the comparison is False
BackendEqualsStr(bk, str) == FALSE

\* the condition of the transpilation cell:
\*   TSP:   if(backend == 'simulator')
\*   Ising: if(run_target == 'simulator')
UsePassManager ==
    IF notebook = "tsp" THEN BackendEqualsStr(backend, "simulator")
    ELSE run_target = "simulator"

\* the transpilation cell:
\*   if ...: pm = generate_preset_pass_manager(...); isa_ansatz = pm.run(ansatz)
\*   else:   isa_ansatz = transpile(ansatz, backend=backend)
\* Ising: the cell follows the classical benchmark.
Transpile ==
    /\ spc = "transpile"
    /\ notebook = "ising" => Len(energy_levels) = NumFields
    /\ isa_path' = IF UsePassManager THEN "pass_manager" ELSE "transpile"
    /\ spc' = "ready"
    /\ UNCHANGED <<notebook, bvars, cost_history_dict, session, dpc, b,
                   initial_point, res, evals, calls, params, outcome, returned,
                   last_returned_params, started_empty, evars, cvars, fvars,
                   run_target, backend, H, session_id, gvars>>

\* one pass of `for b in range(len(b_list))` of the classical benchmark:
\*   H = Hamiltonian(J, b, observables)      (b is the loop index)
\*   E_l, P_l = linalg.eig(H.to_matrix()); Es = np.sort(E_l)
\*   energy_levels.append(np.real(Es))
ClassicalBenchmark ==
    /\ notebook = "ising"
    /\ dpc = "idle"
    /\ spc = "transpile"
    /\ Len(energy_levels) < NumFields
    /\ LET t == Len(energy_levels)
       IN  /\ b' = t
           /\ H' = Hamiltonian(J, t)
           /\ energy_levels' = Append(energy_levels, sort(eig(Hamiltonian(J, t))))
    /\ UNCHANGED <<notebook, bvars, cost_history_dict, session, dpc, initial_point,
                   res, evals, calls, params, outcome, returned,
                   last_returned_params, started_empty, evars,
                   checked, quantum_solution, reported, fvars,
                   svars, session_id, gvars>>

\* tsp_problem.to_quadratic_program(): one binary variable per (city, position),
\* numbered city * nn + position + 1, and the assignment constraints: each city
\* at exactly one position, each position taken by exactly one city
to_quadratic_program(nn) ==
    { [vars |-> {c * nn + q + 1 : q \in 0..(nn - 1)}, rhs |-> 1] : c \in 0..(nn - 1) }
    \cup
    { [vars |-> {c * nn + q + 1 : c \in 0..(nn - 1)}, rhs |-> 1] : q \in 0..(nn - 1) }

\* QuadraticProgramToQubo().convert(qp): every constraint becomes a penalty
\* term of the objective; the converted program has no constraint left
QuadraticProgramToQubo(constraints) == {}

RECURSIVE Ones(_, _)
Ones(x, idx) ==
    IF idx = {} THEN 0
    ELSE LET a == CHOOSE a \in idx : TRUE
         IN  x[a] + Ones(x, idx \ {a})

\* QuadraticProgram.is_feasible(x): x is binary and satisfies every constraint
\* of the program
is_feasible(constraints, x) ==
    /\ \A a \in DOMAIN x : x[a] \in {0, 1}
    /\ \A c \in constraints : Ones(x, c.vars) = c.rhs

\* print("feasible:", qubo.is_feasible(x)) on the converted program
CheckFeasible ==
    /\ feasible = "None"
    /\ feasible' = IF is_feasible(QuadraticProgramToQubo(to_quadratic_program(n)), fx)
                   THEN "True" ELSE "False"
    /\ checked' = checked \cup {"x"}
    /\ UNCHANGED <<notebook, bvars, cost_history_dict, session, dpc, b,
                   initial_point, res, evals, calls, params, outcome, returned,
                   last_returned_params, started_empty, evars,
                   energy_levels, quantum_solution, reported, fx,
                   svars, H, session_id, gvars>>

(***************************************************************************)
(* The variational loop.                                                   *)
(***************************************************************************)
\* with Session(backend=backend) as session: estimator = Estimator(...)
OpenSession ==
    /\ dpc = "idle"
    /\ spc = "ready"
    /\ notebook = "tsp" => bpc = "ready"
    /\ notebook = "ising" => Len(energy_levels) = NumFields
    /\ session' = "open"
    /\ session_id' = session_id + 1
    /\ dpc' = "session"
    /\ b' = 0
    /\ UNCHANGED <<notebook, bvars, cost_history_dict, initial_point, res,
                   evals, calls, params, outcome, returned,
                   last_returned_params, started_empty,
                   evars, cvars, fvars, svars, H, gvars>>

\* the code up to and including the call of minimize(cost_func, x0, ...):
\* in the Ising notebook one entry of the body of `for b in range(len(b_list))`
\* with its random initial point. The trace is not touched.
StartRun ==
    /\ dpc = "session"
    /\ \E pt \in Vectors : initial_point' = pt
    /\ dpc' = "running"
    /\ evals' = {}
    /\ calls' = 0
    /\ params' = "None"
    /\ outcome' = "None"
    /\ returned' = "None"
    /\ last_returned_params' = "None"
    /\ started_empty' = (cost_history_dict = EmptyTrace)
    /\ IF exact
       THEN exact_value' \in [Vectors -> Energies]
       ELSE exact_value' = exact_value
    /\ H' = IF notebook = "ising" THEN Hamiltonian(J, b) ELSE H
    /\ UNCHANGED <<notebook, bvars, cost_history_dict, session, b, res,
                   exact, cvars, fvars, svars, session_id, gvars>>

\* variant: the estimator request wrapped in try/except, a default energy
\* standing in for the failed request
cost_func_default(prm, est) ==
    LET energy == IF est = "raise" THEN "-1.0" ELSE est
    IN  /\ calls' = calls + 1
        /\ params' = prm
        /\ outcome' = est
        /\ cost_history_dict' = Record(cost_history_dict, prm, energy)
        /\ returned' = energy
        /\ evals' = evals \cup {<<prm, energy>>}
        /\ last_returned_params' = prm
        /\ UNCHANGED <<dpc, session>>
        /\ UNCHANGED <<notebook, bvars, b, initial_point, res, started_empty, others>>

\* variant: iters is incremented before the estimator request is made
cost_func_early(prm, est) ==
    /\ calls' = calls + 1
    /\ params' = prm
    /\ outcome' = est
    /\ IF est = "raise"
       THEN /\ returned' = "raised"
            /\ dpc' = "failed"
            /\ session' = "closed"
            /\ cost_history_dict' =
                  [cost_history_dict EXCEPT !.iters = cost_history_dict.iters + 1]
            /\ UNCHANGED <<evals, last_returned_params>>
       ELSE /\ cost_history_dict' = Record(cost_history_dict, prm, est)
            /\ returned' = est
            /\ evals' = evals \cup {<<prm, est>>}
            /\ last_returned_params' = prm
            /\ UNCHANGED <<dpc, session>>
    /\ UNCHANGED <<notebook, bvars, b, initial_point, res, started_empty, others>>

\* variant: no with block around the loop, a raise leaves the session open
cost_func_leak(prm, est) ==
    /\ calls' = calls + 1
    /\ params' = prm
    /\ outcome' = est
    /\ IF est = "raise"
       THEN /\ returned' = "raised"
            /\ dpc' = "failed"
            /\ UNCHANGED <<session, cost_history_dict, evals, last_returned_params>>
       ELSE /\ cost_history_dict' = Record(cost_history_dict, prm, est)
            /\ returned' = est
            /\ evals' = evals \cup {<<prm, est>>}
            /\ last_returned_params' = prm
            /\ UNCHANGED <<dpc, session>>
    /\ UNCHANGED <<notebook, bvars, b, initial_point, res, started_empty, others>>

\* variant: once the trace holds a cost, that first cost is returned again
cost_func_sticky(prm, est) ==
    /\ calls' = calls + 1
    /\ params' = prm
    /\ outcome' = est
    /\ IF est = "raise"
       THEN /\ returned' = "raised"
            /\ dpc' = "failed"
            /\ session' = "closed"
            /\ UNCHANGED <<cost_history_dict, evals, last_returned_params>>
       ELSE LET energy == IF cost_history_dict.cost_history = <<>> THEN est
                          ELSE cost_history_dict.cost_history[1]
            IN  /\ cost_history_dict' = Record(cost_history_dict, prm, energy)
                /\ returned' = energy
                /\ evals' = evals \cup {<<prm, energy>>}
                /\ last_returned_params' = prm
                /\ UNCHANGED <<dpc, session>>
    /\ UNCHANGED <<notebook, bvars, b, initial_point, res, started_empty, others>>

\* cost_func(params, ansatz, hamiltonian, estimator), called back by the
\* minimizer: the first call of a run is at the initial point.
\*   partial_result = estimator.run(pubs=[pub]).result()   (may raise)
\*   energy = partial_result[0].data.evs[0]
\*   iters += 1; prev_vector = params; cost_history.append(energy); return energy
\* A raise leaves the function, minimize and the with block: the session is
\* closed by the with statement and the cell ends with the exception.
cost_func(prm, est) ==
    /\ calls' = calls + 1
    /\ params' = prm
    /\ outcome' = est
    /\ IF est = "raise"
       THEN /\ returned' = "raised"
            /\ dpc' = "failed"
            /\ session' = "closed"
            /\ UNCHANGED <<cost_history_dict, evals, last_returned_params>>
       ELSE /\ cost_history_dict' = Record(cost_history_dict, prm, est)
            /\ returned' = est
            /\ evals' = evals \cup {<<prm, est>>}
            /\ last_returned_params' = prm
            /\ UNCHANGED <<dpc, session>>
    /\ UNCHANGED <<notebook, bvars, b, initial_point, res, started_empty, others>>

\* estimator.run(pubs=[pub]).result() for the run's circuit and observable and
\* the parameters prm: the request may raise; an exact estimator has one value
\* per (circuit, observable, parameters), a sampling one may report any energy
Answers(prm) ==
    {"raise"} \cup (IF exact THEN {exact_value[prm]} ELSE Energies)

Evaluate ==
    /\ dpc = "running"
    /\ calls < maxiter
    /\ \E prm \in Vectors :
          /\ calls = 0 => prm = initial_point
          /\ \E est \in Answers(prm) : cost_func(prm, est)

\* variant: a minimizer that raises when its budget is used up
MinimizeReturn_raising ==
    /\ dpc = "running"
    /\ calls >= 1
    /\ IF calls = maxiter
       THEN /\ dpc' = "failed"
            /\ session' = "closed"
            /\ UNCHANGED <<res, b>>
       ELSE /\ \E e \in evals : res' = [x |-> e[1], fun |-> e[2]]
            /\ IF notebook = "ising" /\ b + 1 < NumFields
               THEN /\ b' = b + 1
                    /\ dpc' = "session"
                    /\ UNCHANGED session
               ELSE /\ dpc' = "done"
                    /\ session' = "closed"
                    /\ UNCHANGED b
    /\ UNCHANGED <<notebook, bvars, cost_history_dict, initial_point,
                   evals, calls, params, outcome, returned,
                   last_returned_params, started_empty, others>>

\* variant: the two result lists exchanged
ResultsExtraction_exchanged(fun) ==
    IF notebook = "ising"
    THEN IF run_target = "simulator"
         THEN /\ ground_state_energies_hardware' =
                     Append(ground_state_energies_hardware, fun)
              /\ UNCHANGED ground_state_energies_simulator
         ELSE /\ ground_state_energies_simulator' =
                     Append(ground_state_energies_simulator, fun)
              /\ UNCHANGED ground_state_energies_hardware
    ELSE UNCHANGED <<ground_state_energies_simulator, ground_state_energies_hardware>>

\* Ising, after minimize has returned:
\*   if run_target == 'simulator': ground_state_energies_simulator.append(res.fun)
\*   else: ground_state_energies_hardware.append(res.fun)
\* (the TSP notebook has no such lists)
ResultsExtraction(fun) ==
    IF notebook = "ising"
    THEN IF run_target = "simulator"
         THEN /\ ground_state_energies_simulator' =
                     Append(ground_state_energies_simulator, fun)
              /\ UNCHANGED ground_state_energies_hardware
         ELSE /\ ground_state_energies_hardware' =
                     Append(ground_state_energies_hardware, fun)
              /\ UNCHANGED ground_state_energies_simulator
    ELSE UNCHANGED <<ground_state_energies_simulator, ground_state_energies_hardware>>

\* minimize returns (converged, or budget used up) with one of the points it
\* evaluated; then
\*   TSP:   session.close() and the with block ends
\*   Ising: the result is put on a result list and the field loop goes on to
\*          the next b, or ends and the with block ends
MinimizeReturn ==
    /\ dpc = "running"
    /\ calls >= 1
    /\ \E e \in evals :
          /\ res' = [x |-> e[1], fun |-> e[2]]
          /\ ResultsExtraction(e[2])
    /\ IF notebook = "ising" /\ b + 1 < NumFields
       THEN /\ b' = b + 1
            /\ dpc' = "session"
            /\ UNCHANGED session
       ELSE /\ dpc' = "done"
            /\ session' = "closed"
            /\ UNCHANGED b
    /\ UNCHANGED <<notebook, bvars, cost_history_dict, initial_point,
                   evals, calls, params, outcome, returned,
                   last_returned_params, started_empty,
                   evars, cvars, fvars, svars, H, session_id, reset_run>>

(***************************************************************************)
(* The cells after the loop.                                               *)
(***************************************************************************)
\* what the sampler's most likely bitstring may be
Samples == {"s_tour", "s_other"}

\* variant: the sampler is given the vector recorded in the trace
SampleAndReport_prev ==
    /\ notebook = "tsp"
    /\ dpc = "done"
    /\ session_id' = session_id + 1
    /\ \E smp \in Samples :
          quantum_solution' =
              [interpret |-> smp, at |-> cost_history_dict.prev_vector,
               session |-> session_id + 1]
    /\ reported' = TRUE
    /\ dpc' = "sampled"
    /\ UNCHANGED <<notebook, bvars, cost_history_dict, session, b, initial_point,
                   res, evals, calls, params, outcome, returned,
                   last_returned_params, started_empty, evars,
                   energy_levels, checked, fvars, svars, H, gvars>>

\* the sampling cell, with res.x of the finished run:
\*   final_state = sampler.run(pubs=[pub1]).result()
\*   quantum_solution = tsp_problem.interpret(tsp_problem.sample_most_likely(...))
\*   print(... quantum_solution ... tsp_value(quantum_solution, adj_matrix))
\*   draw_tsp_solution(tsp_problem.graph, quantum_solution, ...)
\* The cell applies qubo.is_feasible to nothing.
\* A second Session is created for the sampler and is closed when the with
\* block of the cell ends.
SampleAndReport ==
    /\ notebook = "tsp"
    /\ dpc = "done"
    /\ session_id' = session_id + 1
    /\ \E smp \in Samples :
          quantum_solution' =
              [interpret |-> smp, at |-> res.x, session |-> session_id + 1]
    /\ reported' = TRUE
    /\ dpc' = "sampled"
    /\ UNCHANGED <<notebook, bvars, cost_history_dict, session, b, initial_point,
                   res, evals, calls, params, outcome, returned,
                   last_returned_params, started_empty, evars,
                   energy_levels, checked, fvars, svars, H, gvars>>

\* the plotting cells: ax.plot(range(iters), cost_history) reads the trace
PlotHistory ==
    /\ \/ notebook = "tsp" /\ dpc = "sampled"
       \/ notebook = "ising" /\ dpc = "done"
    /\ dpc' = "plotted"
    /\ UNCHANGED <<notebook, bvars, cost_history_dict, session, b, initial_point,
                   res, evals, calls, params, outcome, returned,
                   last_returned_params, started_empty, others>>

Next ==
    \/ BaseCircuit
    \/ WCircuit
    \/ CSwap
    \/ MeasureAll
    \/ SelectBackend
    \/ Transpile
    \/ InitialPoint
    \/ ClassicalBenchmark
    \/ OpenSession
    \/ StartRun
    \/ Evaluate
    \/ MinimizeReturn
    \/ SampleAndReport
    \/ PlotHistory

Spec == Init /\ [][Next]_vars

\* the loop under the scheduling of a notebook run: a cell that can go on does
FairSpec == Spec /\ WF_vars(Next)

(***************************************************************************)
(* The run flag as an input: the cells from the start of the notebook to   *)
(* the initial point, for every value the flag may be given.               *)
(***************************************************************************)
SetupInit ==
    /\ notebook \in {"tsp", "ising"}
    /\ IF notebook = "tsp" THEN BInit ELSE BNone
    /\ DInit
    /\ exact = FALSE
    /\ exact_value = NoValue
    /\ CInit
    /\ FNone
    /\ run_target \in RunTargets
    /\ backend = NoBackend
    /\ isa_path = "None"
    /\ spc = "select"
    /\ GInit

SetupNext ==
    \/ BaseCircuit
    \/ WCircuit
    \/ CSwap
    \/ MeasureAll
    \/ SelectBackend
    \/ Transpile
    \/ InitialPoint
    \/ ClassicalBenchmark

SpecSetup == SetupInit /\ [][SetupNext]_vars

(***************************************************************************)
(* The Ising sweep for either kind of run target, entered with the result  *)
(* lists reset or, the two reset cells skipped, with the selected list     *)
(* still holding the values of an earlier sweep.                           *)
(***************************************************************************)
\* the result list of an earlier complete sweep
EarlierSweep == [t \in 1..NumFields |-> "-1.0"]

SweepInit ==
    /\ notebook = "ising"
    /\ BNone
    /\ DInit
    /\ exact = FALSE
    /\ exact_value = NoValue
    /\ CInit
    /\ FNone
    /\ run_target \in RunTargets
    /\ backend = NoBackend
    /\ isa_path = "None"
    /\ spc = "select"
    /\ H = NoH
    /\ session_id = 0
    /\ reset_run \in BOOLEAN
    /\ ground_state_energies_simulator =
          IF ~reset_run /\ run_target = "simulator" THEN EarlierSweep ELSE <<>>
    /\ ground_state_energies_hardware =
          IF ~reset_run /\ run_target # "simulator" THEN EarlierSweep ELSE <<>>

SweepNext ==
    \/ SelectBackend
    \/ ClassicalBenchmark
    \/ Transpile
    \/ OpenSession
    \/ StartRun
    \/ Evaluate
    \/ MinimizeReturn
    \/ PlotHistory

SpecSweep == SweepInit /\ [][SweepNext]_vars

(***************************************************************************)
(* The feasibility predicate on its own: the classical solver's cell with  *)
(* any bitstring over the Cities x Cities variables in place of x.         *)
(***************************************************************************)
Cities == 1..3

FInit ==
    /\ notebook = "tsp"
    /\ BInit
    /\ n = Cardinality(Cities)
    /\ DInit
    /\ exact = FALSE
    /\ exact_value = NoValue
    /\ energy_levels = <<>>
    /\ checked = {}
    /\ quantum_solution = NoSolution
    /\ reported = FALSE
    /\ fx \in [1..(Cardinality(Cities) * Cardinality(Cities)) -> {0, 1}]
    /\ feasible = "None"
    /\ SInit
    /\ GInit

SpecFeasible == FInit /\ [][CheckFeasible]_vars

(***************************************************************************)
(* Helpers of the properties below.                                        *)
(***************************************************************************)
\* the calls the construction cell makes next, with the indices as written
Pending ==
    IF bpc = "base" THEN base_circuit(n)
    ELSE IF bpc = "W" THEN W_circuit(i, n * (i - 1))
    ELSE IF bpc = "cswap" THEN <<cswap(n, k, v, p)>>
    ELSE <<>>

\* every qubit index and every parameter index of the instructions in `ops`
\* lies in 0..size-1
InRange(ops, size) ==
    \A a \in 1..Len(ops) :
        /\ \A c \in 1..Len(ops[a].qubits) : ops[a].qubits[c] \in 0..(size - 1)
        /\ \A c \in 1..Len(ops[a].params) : ops[a].params[c] \in 0..(size - 1)

CountOp(gs, name) == Cardinality({a \in 1..Len(gs) : gs[a].op = name})

RECURSIVE SumSquares(_, _)
SumSquares(lo, hi) == IF hi < lo THEN 0 ELSE (hi - 1) * (hi - 1) + SumSquares(lo, hi - 1)

Triples(nn) == {t \in (3..nn) \X (1..nn) \X (1..nn) : t[2] <= t[1] - 1 /\ t[3] <= t[1] - 1}

CSwapsDone == bpc \in {"measure", "built", "ready"}

Built == bpc \in {"built", "ready"}

(***************************************************************************)
(* C1: for every city count n >= 3 the register has exactly n^2 qubits,    *)
(* construction never fails, and every qubit index and parameter index of  *)
(* every instruction, emitted or about to be requested (base block, W      *)
(* blocks, controlled-swaps), lies in 0..n^2-1.                            *)
(***************************************************************************)
C1_IndicesInRange ==
    (notebook = "tsp" /\ n >= 3) =>
        /\ num_qubits = n * n
        /\ phi = n * n
        /\ bpc # "error"
        /\ InRange(gates, n * n)
        /\ InRange(Pending, n * n)

\* a full ansatz for n >= 4 whose last W block reaches the last qubit
C1_Witness ==
    /\ notebook = "tsp" /\ n >= 4 /\ bpc = "built"
    /\ \E a \in 1..Len(gates) :
          gates[a].op = "cx" /\ gates[a].qubits[1] = n * n - 1

(***************************************************************************)
(* C2: once the controlled-swap loops are over, the number of              *)
(* controlled-swaps emitted is the number of triples (k, v, p) with        *)
(* 3 <= k <= n, 1 <= v, p <= k-1, i.e. the sum over k = 3..n of (k-1)^2;   *)
(* for n = 3 that is 4.                                                    *)
(***************************************************************************)
C2_CSwapCount ==
    (notebook = "tsp" /\ n >= 3) =>
        /\ bpc # "error"
        /\ CSwapsDone =>
              /\ CountOp(gates, "cswap") = Cardinality(Triples(n))
              /\ CountOp(gates, "cswap") = SumSquares(3, n)
              /\ n = 3 => CountOp(gates, "cswap") = 4

C2_Witness ==
    /\ notebook = "tsp" /\ n = 3 /\ bpc = "measure"
    /\ CountOp(gates, "cswap") = 4

(***************************************************************************)
(* C3 (as claimed): the number of distinct parameters attached to gates    *)
(* equals the declared length n^2 of phi, and that is the length of a      *)
(* parameter vector passed to evaluation.                                  *)
(***************************************************************************)
C3_Original ==
    (notebook = "tsp" /\ n >= 3 /\ bpc = "ready") =>
        /\ Cardinality(Parameters(gates)) = phi
        /\ x0 = phi

(***************************************************************************)
(* C3 (amended): for n >= 2 the number of distinct parameters attached to  *)
(* gates is n(n-1)/2, fewer than the declared length n^2; every attached   *)
(* index lies inside the declared vector; and the attached count           *)
(* (num_params) is the length of the vector passed to evaluation.          *)
(***************************************************************************)
C3_Amended ==
    (notebook = "tsp" /\ n >= 2 /\ bpc = "ready") =>
        /\ 2 * Cardinality(Parameters(gates)) = n * (n - 1)
        /\ Cardinality(Parameters(gates)) < phi
        /\ Parameters(gates) \subseteq 0..(phi - 1)
        /\ num_params = Cardinality(Parameters(gates))
        /\ x0 = num_params

C3_Witness ==
    /\ notebook = "tsp" /\ n = 4 /\ bpc = "ready"
    /\ num_params = 6 /\ phi = 16

(***************************************************************************)
(* C4 (as claimed): in a run started with an empty trace, the iteration    *)
(* counter equals the number of evaluation calls made so far and the       *)
(* recorded vector is the one passed to the most recent evaluation call.   *)
(***************************************************************************)
C4_Original ==
    started_empty =>
        /\ cost_history_dict.iters = calls
        /\ cost_history_dict.prev_vector = params

(***************************************************************************)
(* C4 (amended): in a run started with an empty trace, the iteration       *)
(* counter equals the number of evaluation calls that have returned so far *)
(* and the recorded vector is the one passed to the most recent call that  *)
(* returned; a call whose estimator request raises counts in neither.      *)
(***************************************************************************)
C4_Amended ==
    started_empty =>
        /\ cost_history_dict.iters = calls - (IF returned = "raised" THEN 1 ELSE 0)
        /\ cost_history_dict.prev_vector = last_returned_params

\* two calls have returned, the second at another point than the first
C4_Witness ==
    /\ started_empty /\ dpc = "running" /\ calls = 2
    /\ returned \in Energies
    /\ params # initial_point
    /\ cost_history_dict.iters = 2

(***************************************************************************)
(* C5 (as claimed): whenever a minimizer run starts the trace is empty:    *)
(* iteration counter 0, no recorded costs, no recorded vector.             *)
(***************************************************************************)
C5_TraceEmptyAtRunStart ==
    (dpc = "running" /\ calls = 0) => cost_history_dict = EmptyTrace

(***************************************************************************)
(* C6: the built ansatz ends with the measurement of the whole register:   *)
(* no measurement is emitted before construction is over, and from then on *)
(* the instruction list is some gates without any measurement followed by  *)
(* exactly one measurement of each qubit 0..n^2-1 and nothing else.        *)
(***************************************************************************)
C6_MeasurementTerminal ==
    notebook = "tsp" =>
        IF Built
        THEN LET m == Len(gates) - num_qubits
             IN  /\ m >= 0
                 /\ \A a \in 1..m : gates[a].op # "measure"
                 /\ \A q \in 0..(num_qubits - 1) :
                       /\ gates[m + 1 + q].op = "measure"
                       /\ gates[m + 1 + q].qubits = <<q>>
        ELSE CountOp(gates, "measure") = 0

\* the complete 3-city ansatz: 7 + 9 + 4 gates and 9 measurements
C6_Witness ==
    /\ notebook = "tsp" /\ n = 3 /\ bpc = "ready"
    /\ Len(gates) = 29
    /\ CountOp(gates, "measure") = 9

(***************************************************************************)
(* C7 (as claimed): a city count n <= 0 is rejected before any gate is     *)
(* emitted: construction ends in an error with the gate sequence empty.    *)
(***************************************************************************)
C7_NonPositiveRejected ==
    (notebook = "tsp" /\ n <= 0 /\ bpc # "base") =>
        /\ bpc = "error"
        /\ gates = <<>>

(***************************************************************************)
(* C8 (as claimed): for every positive city count n, n = 1 and n = 2       *)
(* included, construction does not fail.                                   *)
(***************************************************************************)
C8_PositiveNeverFails ==
    (notebook = "tsp" /\ n >= 1) => bpc # "error"

(***************************************************************************)
(* C9 (as claimed): a non-finite estimator value ends the run in a hard    *)
(* failure and is not handed to the minimizer as a cost.                   *)
(***************************************************************************)
C9_NonFiniteIsFailure ==
    outcome \in NonFinite =>
        /\ dpc = "failed"
        /\ returned \notin NonFinite

(***************************************************************************)
(* C10: when the estimator request raises, the evaluation call raises too  *)
(* (no value is returned in its place), the run is over with the session   *)
(* closed and no result, and nothing runs afterwards (no retry).           *)
(***************************************************************************)
C10_FailurePropagates ==
    outcome = "raise" =>
        /\ returned = "raised"
        /\ dpc = "failed"
        /\ session = "closed"
        /\ ~ENABLED Next

\* the second request of a run raises after the first one returned
C10_Witness ==
    /\ outcome = "raise" /\ calls = 2
    /\ cost_history_dict.iters = 1

(***************************************************************************)
(* C11 (as claimed): every run reaches Done. A run that has ended without  *)
(* Done never reaches it (the failed state is final), so the claim says    *)
(* that no run is ever in the failed state; and a run makes at most        *)
(* maxiter evaluation calls.                                               *)
(***************************************************************************)
C11_Original ==
    /\ calls <= maxiter
    /\ dpc # "failed"

(***************************************************************************)
(* C11 (amended): a run makes at most maxiter evaluation calls; it ends    *)
(* either by the minimizer's return (Done, with a point the run evaluated) *)
(* or by an estimator request that raised, and by nothing else; a run      *)
(* whose budget is used up can only return, it makes no further call and   *)
(* does not fail; and every run eventually ends in one of the two ways.    *)
(***************************************************************************)
RunEnded == dpc \in {"session", "done", "failed"}

C11_Amended ==
    /\ [](calls <= maxiter)
    /\ [](dpc = "failed" => outcome = "raise")
    /\ []((dpc = "running" /\ calls = maxiter) =>
             (ENABLED MinimizeReturn /\ ~ENABLED Evaluate))
    /\ [][(dpc = "running" /\ dpc' # "running") =>
             \/ dpc' = "failed" /\ outcome' = "raise" /\ calls' = calls + 1
             \/ /\ dpc' \in {"session", "done"}
                /\ calls' = calls
                /\ <<res'.x, res'.fun>> \in evals]_vars
    /\ (dpc = "running") ~> RunEnded

\* a run that used its whole budget and ended with a result
C11_Witness ==
    /\ dpc = "done" /\ calls = maxiter
    /\ outcome \in Energies
    /\ <<res.x, res.fun>> \in evals

(***************************************************************************)
(* C12: evaluation calls are made in Running only, Running is left for    *)
(* Done with the minimizer's result, and once a run is Done (its result    *)
(* has been returned) the cost trace no longer changes.                    *)
(***************************************************************************)
C12_RunningThenDone ==
    [][/\ calls' = calls + 1 => dpc = "running"
       /\ cost_history_dict' # cost_history_dict => dpc = "running"
       /\ (dpc = "running" /\ dpc' \in {"session", "done"}) => res' # NoResult
       /\ res # NoResult => cost_history_dict' = cost_history_dict]_vars

(***************************************************************************)
(* C13: with an exact estimator, every value returned by the evaluation    *)
(* step in a run is the estimator's value for the parameters of the call:  *)
(* two calls of a run with the same parameters return the same value,      *)
(* whatever the trace holds and however many calls came before.            *)
(***************************************************************************)
C13_ExactDeterministic ==
    (exact /\ dpc \in {"running", "failed"}) =>
        /\ \A e \in evals : e[2] = exact_value[e[1]]
        /\ \A e1, e2 \in evals : e1[1] = e2[1] => e1[2] = e2[2]
        /\ returned \in Energies => returned = exact_value[params]

\* the third call of a run, after calls at both vectors with different values:
\* one vector has been asked twice and the trace held other costs in between
C13_Witness ==
    /\ exact /\ dpc = "running" /\ calls = 3
    /\ exact_value["x_a"] # exact_value["x_b"]
    /\ Cardinality(evals) = 2
    /\ returned = exact_value[params]

(***************************************************************************)
(* C14: on the 3-city instance the feasibility predicate the program       *)
(* applies answers False for every bitstring that is not the encoding of a *)
(* permutation and True for the encoding of a tour (for 3 cities and a     *)
(* symmetric distance matrix every tour is optimal).                       *)
(***************************************************************************)
\* exactly one position per city and one city per position
ValidTour(x, nn) ==
    /\ \A c \in 0..(nn - 1) :
          Cardinality({q \in 0..(nn - 1) : x[c * nn + q + 1] = 1}) = 1
    /\ \A q \in 0..(nn - 1) :
          Cardinality({c \in 0..(nn - 1) : x[c * nn + q + 1] = 1}) = 1

C14_FeasibleIffTour ==
    feasible # "None" =>
        /\ ~ValidTour(fx, n) => feasible = "False"
        /\ ValidTour(fx, n) => feasible = "True"

(***************************************************************************)
(* C15: a sampled solution that has been interpreted, costed, printed and  *)
(* drawn has been put to the feasibility predicate before.                 *)
(***************************************************************************)
C15_SampleChecked ==
    reported => quantum_solution.interpret \in checked

(***************************************************************************)
(* C16: the first entry of the sorted energy levels the classical          *)
(* benchmark records for the zero-field point (J = 1, b = 0) is -1.        *)
(***************************************************************************)
C16_ZeroFieldGround ==
    (notebook = "ising" /\ Len(energy_levels) >= 1) =>
        /\ J = 1
        /\ Len(energy_levels[1]) = 4
        /\ energy_levels[1][1] = -1
        /\ \A e \in 1..4 : energy_levels[1][1] <= energy_levels[1][e]

\* the benchmark loop is over and its first entry lists the four levels
C16_Witness ==
    /\ notebook = "ising" /\ Len(energy_levels) = NumFields
    /\ energy_levels[1] = <<-1, -1, 1, 1>>

(***************************************************************************)
(* Basis states: a computational-basis state of the register is the set of *)
(* the qubits that are 1. A rotation is followed by a controlled-phase and *)
(* the inverse rotation on the same target; the triple leaves the target   *)
(* alone when the control is 0 and may leave or flip it when the control   *)
(* is 1. The branching is put on the controlled-phase, the two rotations   *)
(* around it pass the state on.                                            *)
(***************************************************************************)
Toggle(st, q) == IF q \in st THEN st \ {q} ELSE st \cup {q}

Exchange(st, q1, q2) ==
    IF (q1 \in st) = (q2 \in st) THEN st ELSE Toggle(Toggle(st, q1), q2)

Step(st, g) ==
    IF g.op = "x" THEN {Toggle(st, g.qubits[1])}
    ELSE IF g.op = "cx"
        THEN {IF g.qubits[1] \in st THEN Toggle(st, g.qubits[2]) ELSE st}
    ELSE IF g.op = "cz"
        THEN IF g.qubits[1] \in st THEN {st, Toggle(st, g.qubits[2])} ELSE {st}
    ELSE IF g.op = "cswap"
        THEN {IF g.qubits[1] \in st
              THEN Exchange(st, g.qubits[2], g.qubits[3]) ELSE st}
    ELSE {st}

\* the gates gs[lo..hi] applied in order to every state of sts (the list is
\* halved, and the states of the first half are all computed before the
\* second half is entered, to keep the nesting of the evaluation shallow)
RECURSIVE RunRange(_, _, _, _)
RunRange(sts, gs, lo, hi) ==
    IF sts = {} \/ hi < lo THEN sts
    ELSE IF lo = hi THEN UNION {Step(st, gs[lo]) : st \in sts}
    ELSE LET mid == (lo + hi) \div 2
         IN  RunRange(RunRange(sts, gs, lo, mid), gs, mid + 1, hi)

Run(sts, gs) == RunRange(sts, gs, 1, Len(gs))

\* exactly one 1 in each row of nn qubits and in each column
PermutationMatrix(st, nn) ==
    /\ st \subseteq 0..(nn * nn - 1)
    /\ \A r \in 0..(nn - 1) :
          Cardinality({c \in 0..(nn - 1) : r * nn + c \in st}) = 1
    /\ \A c \in 0..(nn - 1) :
          Cardinality({r \in 0..(nn - 1) : r * nn + c \in st}) = 1

RECURSIVE Factorial(_)
Factorial(m) == IF m <= 1 THEN 1 ELSE m * Factorial(m - 1)

(***************************************************************************)
(* C17: for every n in 3..MaxSimN, the basis states reachable at the end of *)
(* the full ansatz from the all-zero state are n x n permutation matrices, *)
(* and there are n! of them: every permutation matrix is reachable.        *)
(***************************************************************************)
\* the largest city count whose ansatz is run on basis states
MaxSimN == 5

C17_PermutationStates ==
    (notebook = "tsp" /\ n \in 3..MaxSimN /\ bpc = "built") =>
        LET final == Run({{}}, gates)
        IN  /\ \A st \in final : PermutationMatrix(st, n)
            /\ Cardinality(final) = Factorial(n)

\* the 3-city ansatz is complete and the tour 0 -> 2 -> 1 (a 1 in row 0
\* column 0, row 1 column 2, row 2 column 1) is among its basis states
C17_Witness ==
    /\ notebook = "tsp" /\ n = 3 /\ bpc = "built"
    /\ {0, 5, 7} \in Run({{}}, gates)

(***************************************************************************)
(* The gate list a complete construction has, from the loops as written.   *)
(***************************************************************************)
RECURSIVE AllW(_, _, _)
AllW(lo, hi, nn) ==
    IF hi < lo THEN <<>> ELSE AllW(lo, hi - 1, nn) \o W_circuit(hi, nn * (hi - 1))

\* the controlled-swaps of stage kk: v ascending, and p ascending within one v
Stage(nn, kk) ==
    [m \in 1..((kk - 1) * (kk - 1)) |->
        cswap(nn, kk, 1 + ((m - 1) \div (kk - 1)), 1 + ((m - 1) % (kk - 1)))]

RECURSIVE AllStages(_, _, _)
AllStages(lo, hi, nn) ==
    IF hi < lo THEN <<>> ELSE AllStages(lo, hi - 1, nn) \o Stage(nn, hi)

Expected(nn) ==
    base_circuit(nn) \o AllW(3, nn, nn) \o AllStages(3, nn, nn) \o measure_all(nn * nn)

IsPrefix(s1, s2) == Len(s1) <= Len(s2) /\ s1 = SubSeq(s2, 1, Len(s1))

(***************************************************************************)
(* C18: for n >= 3 the gate list is at every moment of the construction a  *)
(* prefix of: base block, W blocks for i = 3..n ascending, controlled-     *)
(* swaps ascending in k, then v, then p, measurements; and every step      *)
(* keeps the gates already appended, in their places.                      *)
(***************************************************************************)
C18_AppendOrder ==
    /\ []((notebook = "tsp" /\ n >= 3 /\ bpc # "ready") => IsPrefix(gates, Expected(n)))
    /\ [][IsPrefix(gates, gates')]_vars

\* a complete 4-city ansatz: two W blocks and two stages of controlled-swaps
C18_Witness ==
    /\ notebook = "tsp" /\ n = 4 /\ bpc = "built"
    /\ gates = Expected(4)
    /\ CountOp(gates, "cswap") = 13

(***************************************************************************)
(* C19 (as claimed): the base block is seven gates, flip on 0, the         *)
(* rotation / controlled-phase / inverse rotation on (0, 1) with one       *)
(* parameter, CNOT 1 -> 0, and two CNOTs whose targets are the last two    *)
(* qubits of the register.                                                 *)
(***************************************************************************)
BaseDone == notebook = "tsp" /\ n >= 2 /\ bpc \notin {"base", "error"}

BaseHead ==
    /\ Len(gates) >= 7
    /\ gates[1] = Op("x",  <<0>>,    <<>>,  0)
    /\ gates[2] = Op("ry", <<1>>,    <<1>>, 1)
    /\ gates[3] = Op("cz", <<0, 1>>, <<>>,  0)
    /\ gates[4] = Op("ry", <<1>>,    <<1>>, -1)
    /\ gates[5] = Op("cx", <<1, 0>>, <<>>,  0)
    /\ gates[6].op = "cx" /\ gates[6].qubits[1] = 1
    /\ gates[7].op = "cx" /\ gates[7].qubits[1] = 0

C19_Original ==
    BaseDone =>
        /\ BaseHead
        /\ gates[6].qubits[2] = n * n - 2
        /\ gates[7].qubits[2] = n * n - 1

(***************************************************************************)
(* C19 (amended): the two last CNOTs of the base block have the targets n  *)
(* and n + 1, the first two qubits of the second row of n qubits; the      *)
(* block touches the qubits 0, 1, n, n + 1 only. The targets are the last  *)
(* two qubits of the register for n = 2 and for no other n.                *)
(***************************************************************************)
C19_Amended ==
    /\ (notebook = "tsp" /\ n >= 2) => bpc # "error"
    /\ BaseDone =>
          /\ BaseHead
          /\ gates[6].qubits[2] = n
          /\ gates[7].qubits[2] = n + 1
          /\ UNION {{gates[a].qubits[c] : c \in 1..Len(gates[a].qubits)} : a \in 1..7}
                = {0, 1, n, n + 1}
          /\ (gates[6].qubits[2] = n * n - 2 /\ gates[7].qubits[2] = n * n - 1)
                <=> n = 2

\* the base block of the 3-city ansatz: targets 3 and 4 of a 9-qubit register
C19_Witness ==
    /\ notebook = "tsp" /\ n = 3 /\ bpc = "W" /\ Len(gates) = 7
    /\ gates[6].qubits = <<1, 3>> /\ gates[7].qubits = <<0, 4>>

(***************************************************************************)
(* C20: for every block size m in 3..n, the W block anchored at            *)
(* a = n*(m-1) is, in the gate list: a flip on a; for j = a+1..a+m-1       *)
(* ascending the rotation by +theta[j-1] on j, the controlled-phase on     *)
(* (j-1, j), the rotation by -theta[j-1] on j; then the CNOTs j -> j-1 for *)
(* j ascending. It has 4m-3 gates and touches exactly the qubits           *)
(* a..a+m-1.                                                               *)
(***************************************************************************)
\* the block sizes whose W block has been emitted
BlocksDone ==
    IF notebook # "tsp" \/ n < 3 THEN {}
    ELSE IF bpc = "W" THEN 3..(i - 1)
    ELSE IF bpc \in {"cswap", "measure", "built", "ready"} THEN 3..n
    ELSE {}

RECURSIVE BlockStart(_)
BlockStart(m) == IF m <= 3 THEN 7 ELSE BlockStart(m - 1) + 4 * (m - 1) - 3

C20_WBlock ==
    \A m \in BlocksDone :
        LET a == n * (m - 1)
            at == BlockStart(m)
            block == SubSeq(gates, at + 1, at + 4 * m - 3)
        IN  /\ Len(gates) >= at + 4 * m - 3
            /\ Len(W_circuit(m, a)) = 4 * m - 3
            /\ block[1] = Op("x", <<a>>, <<>>, 0)
            /\ \A t \in 1..(m - 1) :
                  LET j == a + t
                  IN  /\ block[3 * t - 1] = Op("ry", <<j>>, <<j - 1>>, 1)
                      /\ block[3 * t]     = Op("cz", <<j - 1, j>>, <<>>, 0)
                      /\ block[3 * t + 1] = Op("ry", <<j>>, <<j - 1>>, -1)
                      /\ block[3 * m - 2 + t] = Op("cx", <<j, j - 1>>, <<>>, 0)
            /\ UNION {{block[e].qubits[c] : c \in 1..Len(block[e].qubits)} :
                         e \in 1..(4 * m - 3)} = a..(a + m - 1)

\* the 4-city construction after its two W blocks (9 and 13 gates)
C20_Witness ==
    /\ notebook = "tsp" /\ n = 4 /\ bpc = "cswap" /\ k = 3 /\ v = 1 /\ p = 1
    /\ Len(gates) = 7 + 9 + 13
    /\ BlocksDone = {3, 4}

(***************************************************************************)
(* C21: the Hamiltonian built at step b of a field loop (classical         *)
(* benchmark or quantum sweep) is -J*ZZ + b_list[b]*(IX + XI), with        *)
(* b_list the evenly spaced values from 0 to 4.                            *)
(***************************************************************************)
\* np.linspace(lo, hi, num), as fractions: entry t is lo + t*(hi - lo)/(num - 1)
linspace(lo, hi, num) ==
    [t \in 0..(num - 1) |-> [num |-> lo * (num - 1) + t * (hi - lo), den |-> num - 1]]

\* b_list = np.linspace(0, 4, 10), with NumFields values
b_list == linspace(0, 4, NumFields)

\* H and b belong to the same step of a field loop
InFieldStep == notebook = "ising" /\ H # NoH /\ dpc \in {"idle", "running"}

C21_FieldFromList ==
    InFieldStep =>
        \A rc \in DOMAIN H :
            b_list[b].den * H[rc] =
                b_list[b].den * (0 - J) * observables[1][rc]
                + b_list[b].num * (observables[2][rc] + observables[3][rc])

(***************************************************************************)
(* C22 (as claimed): when the minimizer returns, the vector recorded in    *)
(* the trace equals the point the minimizer returns, and that point is the *)
(* one the circuit is sampled at.                                          *)
(***************************************************************************)
MinimizerReturns == dpc = "running" /\ dpc' \in {"session", "done"}

C23_AppendOnly ==
    /\ [](Len(cost_history_dict.cost_history) = cost_history_dict.iters)
    /\ [][cost_history_dict' # cost_history_dict =>
             /\ calls' = calls + 1
             /\ returned' \in Energies
             /\ cost_history_dict'.cost_history =
                   Append(cost_history_dict.cost_history, returned')
             /\ cost_history_dict'.iters = cost_history_dict.iters + 1]_vars
    /\ [][(calls' = calls + 1 /\ returned' \in Energies) =>
             cost_history_dict' # cost_history_dict]_vars

\* three calls have returned, with different values
C23_Witness ==
    /\ cost_history_dict.iters = 3
    /\ cost_history_dict.cost_history = <<"-1.0", "nan", "-1.0">>

C25_SessionScope ==
    /\ [][calls' = calls + 1 => (session = "open" /\ session_id = 1)]_vars
    /\ [](dpc \in {"done", "failed", "sampled", "plotted"} => session = "closed")
    /\ [](dpc \in {"session", "running"} => session = "open")
    /\ [][(reported' /\ ~reported) =>
             /\ session = "closed"
             /\ session_id = 1
             /\ quantum_solution'.session = 2]_vars

\* a failed run with its session closed
C25_Witness ==
    /\ dpc = "failed" /\ outcome = "raise" /\ session = "closed"
    /\ session_id = 1

(***************************************************************************)
(* C26: 'simulator' selects the Aer simulator, 'least_busy' one of the     *)
(* operational hardware backends, and any other value of the run flag the  *)
(* backend of that name.                                                   *)
(***************************************************************************)
C26_BackendByTarget ==
    spc # "select" =>
        IF run_target = "simulator" THEN backend.class = "AerSimulator"
        ELSE IF run_target = "least_busy"
        THEN backend.class = "IBMBackend" /\ backend.name \in Hardware
        ELSE backend.class = "IBMBackend" /\ backend.name = run_target

(***************************************************************************)
(* C27: for n >= 3 every controlled-swap emitted or about to be requested  *)
(* has, for its (k, v, p), the control n*(k-1)+v-1 and the targets         *)
(* n*(p-1)+k-1 and n*(p-1)+v-1: three distinct qubits, the two targets in  *)
(* one row of n qubits and the control in a later row. No request fails,   *)
(* and when the loops are over every (k, v, p) has its controlled-swap.    *)
(***************************************************************************)
CSwapOf(nn, t) ==
    << nn * (t[1] - 1) + t[2] - 1, nn * (t[3] - 1) + t[1] - 1, nn * (t[3] - 1) + t[2] - 1 >>

\* three distinct qubits, the targets in one row of nn, the control in a later row
Apart(qs, nn) ==
    /\ qs[1] # qs[2] /\ qs[1] # qs[3] /\ qs[2] # qs[3]
    /\ qs[2] \div nn = qs[3] \div nn
    /\ qs[1] \div nn > qs[2] \div nn

C27_CSwapOperands ==
    (notebook = "tsp" /\ n >= 3) =>
        LET emitted == {gates[a].qubits : a \in {c \in 1..Len(gates) : gates[c].op = "cswap"}}
            claimed == {CSwapOf(n, t) : t \in Triples(n)}
        IN  /\ bpc # "error"
            /\ emitted \subseteq claimed
            /\ bpc = "cswap" => cswap(n, k, v, p).qubits \in claimed
            /\ CSwapsDone => emitted = claimed
            /\ \A qs \in claimed : Apart(qs, n)

\* the last controlled-swap of the 4-city ansatz: k = 4, v = 3, p = 3
C27_Witness ==
    /\ notebook = "tsp" /\ n = 4 /\ bpc = "measure"
    /\ gates[Len(gates)].op = "cswap"
    /\ gates[Len(gates)].qubits = <<14, 11, 10>>

(***************************************************************************)
(* C28: for n >= 3 the parameters attached to the gates of the complete    *)
(* ansatz are phi[1] and, for i in 3..n, phi[n*(i-1)] .. phi[n*(i-1)+i-2]: *)
(* n*(n-1)/2 of them; each is carried by exactly two gates, a rotation by  *)
(* +theta and a rotation by -theta on one and the same qubit; phi[0] is    *)
(* attached to no gate. (Every parameter of the gate list is an entry of   *)
(* phi: the vector made inside base_circuit is passed to no gate call.)    *)
(***************************************************************************)
\* the gates that carry a parameter
Carrying == {a \in 1..Len(gates) : Len(gates[a].params) > 0}

C28_AttachedParameters ==
    (notebook = "tsp" /\ n >= 3 /\ Built) =>
        LET attached == Parameters(gates)
            carrying == Carrying
        IN  /\ attached =
                  {1} \cup UNION {(n * (m - 1))..(n * (m - 1) + m - 2) : m \in 3..n}
            /\ 2 * Cardinality(attached) = n * (n - 1)
            /\ 0 \notin attached
            /\ \A a \in carrying : gates[a].op = "ry" /\ Len(gates[a].params) = 1
            /\ \A prm \in attached :
                  LET carriers == {a \in carrying : gates[a].params[1] = prm}
                  IN  /\ Cardinality(carriers) = 2
                      /\ \E a1, a2 \in carriers :
                            /\ a1 < a2
                            /\ gates[a1].sign = 1 /\ gates[a2].sign = -1
                            /\ gates[a1].qubits = gates[a2].qubits

\* the complete 4-city ansatz and its six parameters
C28_Witness ==
    /\ notebook = "tsp" /\ n = 4 /\ bpc = "built"
    /\ Parameters(gates) = {1, 8, 9, 12, 13, 14}

(***************************************************************************)
(* C29: an evaluation call whose estimator request fails leaves the trace  *)
(* (iteration counter, recorded vector, cost sequence) as it was.          *)
(***************************************************************************)
C29_FailureLeavesTrace ==
    [][(calls' = calls + 1 /\ outcome' = "raise") =>
          /\ cost_history_dict'.iters = cost_history_dict.iters
          /\ cost_history_dict'.prev_vector = cost_history_dict.prev_vector
          /\ cost_history_dict'.cost_history = cost_history_dict.cost_history]_vars

\* the third call of a run failed; the trace holds the two calls before it
C29_Witness ==
    /\ outcome = "raise" /\ calls = 3 /\ dpc = "failed"
    /\ cost_history_dict.iters = 2
    /\ cost_history_dict.prev_vector \in Vectors

(***************************************************************************)
(* C30: in the Ising sweep each return of the minimizer appends the        *)
(* returned value to the list selected by the run target (the simulator    *)
(* list for 'simulator', the hardware list otherwise) and nothing else     *)
(* changes either list; entered with both lists reset, the sweep fills the *)
(* selected list with one value per field value, in field order, and       *)
(* leaves the other empty; entered without a reset after an earlier sweep, *)
(* it leaves the selected list longer than b_list.                         *)
(***************************************************************************)
Selected ==
    IF run_target = "simulator" THEN ground_state_energies_simulator
    ELSE ground_state_energies_hardware

NotSelected ==
    IF run_target = "simulator" THEN ground_state_energies_hardware
    ELSE ground_state_energies_simulator

SweepOver == notebook = "ising" /\ dpc \in {"done", "plotted"}

C30_ResultLists ==
    /\ [][IF MinimizerReturns
          THEN Selected' = Append(Selected, res'.fun) /\ NotSelected' = NotSelected
          ELSE Selected' = Selected /\ NotSelected' = NotSelected]_vars
    /\ []((reset_run /\ dpc \in {"session", "running"}) => Len(Selected) = b)
    /\ []((reset_run /\ SweepOver) =>
             Len(Selected) = NumFields /\ NotSelected = <<>>)
    /\ []((~reset_run /\ SweepOver) => Len(Selected) > NumFields)

\* a hardware sweep entered with the lists reset is over
C30_Witness ==
    /\ notebook = "ising" /\ dpc = "done" /\ reset_run
    /\ run_target = "least_busy"
    /\ Len(ground_state_energies_hardware) = NumFields
    /\ ground_state_energies_hardware[NumFields] = res.fun
    /\ ground_state_energies_simulator = <<>>

=============================================================================
